---- MODULE Spec2Model ----
(***************************************************************************)
(* Model of the ConnectOnion TypeScript agent core (src/src/core/agent.ts): *)
(* the bounded provider/tool loop of Agent.input, the concurrent dispatch  *)
(* of one turn's tool calls (executeToolCalls / executeToolCall), the       *)
(* @xray breakpoint (pauseAtBreakpoint), the in-memory trace, the module    *)
(* level xray context (src/src/tools/xray.ts) and the behavior history     *)
(* (src/src/history/index.ts).                                             *)
(*                                                                         *)
(* One input() invocation is in flight at a time.  Every await of the code *)
(* is a point where the model yields: the provider call, each tool's run,  *)
(* and the two questions of the breakpoint prompt.  Everything the code    *)
(* does between two awaits is one action.                                  *)
(***************************************************************************)
EXTENDS Integers, Sequences, FiniteSets, TLC

(***************************************************************************)
(* Bounds of the model                                                     *)
(***************************************************************************)
\* number of completions the provider is asked for over the Agent's lifetime
MaxProviderCalls == 2
\* length up to which addTool grows the tool list
MaxTools == 4
\* length of the lists processTools is given
MaxListLen == 3
\* number of RemoteAgent.input() calls made
MaxRemoteInputs == 2
\* number of frames the relay delivers to one RemoteAgent.input() call
MaxFrames == 3
\* the Agent's configured iteration cap (config.maxIterations)
ConfigMaxIterations == 2

(***************************************************************************)
(* JavaScript values that occur in the loop                                *)
(***************************************************************************)
Undefined == [t |-> "undefined"]
Null == [t |-> "null"]
Str(s) == [t |-> "str", s |-> s]
Num(n) == [t |-> "num", n |-> n]
\* a value JSON.stringify throws on (a BigInt, an object with a cycle)
Unserializable == [t |-> "unserializable"]

\* JavaScript truthiness of a string-or-null value
Truthy(v) == v.t = "str" /\ v.s # ""

\* content || ''
OrEmpty(v) == IF Truthy(v) THEN v ELSE Str("")

\* JSON.stringify does not throw on v
CanStringify(v) == v.t # "unserializable"

\* JSON.stringify(v), for a v it does not throw on
JSONStringify(v) ==
  CASE v.t = "num" -> Str(ToString(v.n))
    [] v.t = "str" -> Str("\"" \o v.s \o "\"")
    [] v.t = "null" -> Str("null")
    [] OTHER -> Undefined

(***************************************************************************)
(* Tools.  A Tool is its name, its xray flag and its run operation, the    *)
(* latter identified by impl.                                              *)
(*   add        add(a, b) = a + b, synchronous, flagged @xray              *)
(*   errorTool  throws Error('Tool error') synchronously                   *)
(*   fetch      asynchronous; resolves or rejects when its I/O completes   *)
(***************************************************************************)
ToolAdd == [name |-> "add", xray |-> TRUE, impl |-> "add"]
ToolError == [name |-> "errorTool", xray |-> FALSE, impl |-> "errorTool"]
ToolFetch == [name |-> "fetch", xray |-> FALSE, impl |-> "fetch"]

\* tools registered after construction: a second function under the name
\* add, which multiplies, and newTool of the registry test
ToolAddAgain == [name |-> "add", xray |-> FALSE, impl |-> "multiply"]
ToolNew == [name |-> "newTool", xray |-> FALSE, impl |-> "newTool"]

\* config.tools of the modelled Agent
ConfigTools == <<ToolAdd, ToolError, ToolFetch>>

\* new Map(this.tools.map(tool => [tool.name, tool])): a later entry of the
\* same name replaces an earlier one
RECURSIVE MapOf(_)
MapOf(ts) ==
  IF ts = <<>> THEN <<>>
  ELSE LET rest == MapOf(SubSeq(ts, 1, Len(ts) - 1))
           last == ts[Len(ts)]
       IN [n \in (DOMAIN rest) \cup {last.name} |->
             IF n = last.name THEN last ELSE rest[n]]

\* what an asynchronous fetch can settle with
FetchOutcomes ==
  { [kind |-> "return", value |-> Str("data"), error |-> ""],
    [kind |-> "return", value |-> Unserializable, error |-> ""],
    [kind |-> "throw", value |-> Undefined, error |-> "timeout"] }

\* the outcome of a synchronous run: tool.run(args) of createToolFromFunction
SyncRun(tool, args) ==
  CASE tool.impl = "add" ->
         [kind |-> "return", value |-> Num(args.a + args.b), error |-> ""]
    [] tool.impl = "errorTool" ->
         [kind |-> "throw", value |-> Undefined, error |-> "Tool error"]
    [] tool.impl = "multiply" ->
         [kind |-> "return", value |-> Num(args.a * args.b), error |-> ""]
    [] tool.impl = "newTool" ->
         [kind |-> "return", value |-> Str("new"), error |-> ""]
    [] OTHER -> [kind |-> "pending", value |-> Undefined, error |-> ""]

(***************************************************************************)
(* Inputs of the environment                                               *)
(***************************************************************************)
Prompts == {"Hello"}

\* the optional maxIterations argument of input(); NoOverride is its absence
NoOverride == -1
Overrides == {NoOverride, 0, 1}

Args53 == [a |-> 5, b |-> 3]
Args12 == [a |-> 1, b |-> 2]

Call(id, name) == [id |-> id, name |-> name, arguments |-> Args53]

\* the non-empty toolCalls arrays the provider answers with
ToolCallLists ==
  { <<Call("call_1", "add")>>,
    <<Call("call_1", "nonExistentTool")>>,
    <<Call("call_1", "errorTool")>>,
    <<Call("call_1", "fetch"), Call("call_2", "add")>>,
    <<Call("call_1", "nonExistentTool"), Call("call_2", "fetch")>> }

\* the LLMResponse values of the provider
LLMResponses ==
  { [content |-> c, toolCalls |-> <<>>] : c \in {Null, Str(""), Str("Final")} }
  \cup { [content |-> Null, toolCalls |-> tc] : tc \in ToolCallLists }
  \cup { [content |-> Str("Let me check"),
          toolCalls |-> <<Call("call_1", "errorTool"), Call("call_2", "fetch")>>] }

\* 'const llmResponse' before the first response of an invocation
NoResponse == [content |-> Undefined, toolCalls |-> <<>>]

\* what the user types at 'args JSON> ' and what JSON.parse makes of it
EditTexts == {"{\"a\":1,\"b\":2}", "not json", "{\"__skip__\":true}", "null"}
\* JSON.parse(text) does not throw
ParseOk(text) == text # "not json"
\* the object pauseAtBreakpoint returns for the command skip
SkipMarker == [__skip__ |-> TRUE]
\* JSON.parse(text), for a text it does not throw on
JSONParse(text) ==
  CASE text = "{\"a\":1,\"b\":2}" -> Args12
    [] text = "{\"__skip__\":true}" -> SkipMarker
    [] text = "null" -> Null
    [] OTHER -> Args53
\* maybeArgs && maybeArgs.__skip__
IsSkip(maybeArgs) ==
  maybeArgs # Null /\ "__skip__" \in DOMAIN maybeArgs /\ maybeArgs.__skip__

(***************************************************************************)
(* State                                                                   *)
(***************************************************************************)
VARIABLES
  \* fields of the Agent
  tools,            \* this.tools
  toolMap,          \* this.toolMap
  messages,         \* this.messages; <<>> stands for null
  currentIteration, \* this.currentIteration
  debugEnabled,     \* this.debugEnabled
  trace,            \* this.trace
  lastUserPrompt,   \* this.lastUserPrompt
  \* module-level state of tools/xray.ts and the History of the Agent
  xrayContext,
  behaviors,
  \* the input() invocation in flight: its position and its locals
  pc,               \* "idle", "awaitLLM", "awaitTools" or "done"
  maxIterationsArg, \* the maxIterations argument
  iterations,
  i,
  finalResponse,
  toolSchemas,
  llmResponse,      \* the response of the current turn
  toolCalls,        \* llmResponse.toolCalls of the current turn
  tasks,            \* the executeToolCall invocations of the current turn
  viaAutoDebug,     \* input() was called by autoDebug(prompt)
  \* what the caller and the provider observe
  outcome,          \* how the promise of the last input() settled
  providerCalls,    \* llm.complete calls made by this invocation
  allHadCalls,      \* every response of this invocation carried tool calls
  providerError,    \* the error llm.complete threw in this invocation, or ""
  nDispatched,      \* executeToolCall invocations made on this Agent so far
  callCount,        \* llm.complete calls made on the provider so far
  lastCall,         \* the last addTool / removeTool call and what it returned
  \* processTools of tools/tool-utils.ts: its last argument and its result
  processInput,
  processed,
  \* module-level state of tools/replay.ts and what the last call returned
  replayLastCall,
  replayReturned,
  \* the RemoteAgent.input() call in flight: its socket and its locals
  ws,               \* "none", "connecting", "open", "closing" or "closed"
  remotePrompt,     \* the prompt of the last RemoteAgent.input()
  inputId,
  settled,
  timer,            \* the timer set by setTimeout
  sent,             \* what ws.send was given
  delivered,        \* the events ws.onmessage was called with
  promise,          \* how the promise of the last RemoteAgent.input() settled
  uuids             \* crypto.randomUUID calls made so far

agentVars == <<tools, toolMap, messages, currentIteration, debugEnabled,
               trace, lastUserPrompt>>
sinkVars == <<xrayContext, behaviors>>
localVars == <<pc, maxIterationsArg, iterations, i, finalResponse,
               toolSchemas, llmResponse, toolCalls, tasks, viaAutoDebug>>
obsVars == <<outcome, providerCalls, allHadCalls, providerError, nDispatched,
             callCount, lastCall>>
toolUtilVars == <<processInput, processed>>
replayVars == <<replayLastCall, replayReturned>>
remoteVars == <<ws, remotePrompt, inputId, settled, timer, sent, delivered, promise, uuids>>
otherVars == <<toolUtilVars, replayVars, remoteVars>>
coreVars == <<agentVars, sinkVars, localVars, obsVars>>
vars == <<coreVars, otherVars>>

\* 'const tool' of a dispatch whose lookup found nothing
NoTool == [name |-> "", xray |-> FALSE, impl |-> "none"]

\* no addTool or removeTool call was made yet
NoCall == [op |-> "none", name |-> "", tool |-> NoTool, returned |-> FALSE]

NoOutcome == [kind |-> "none", value |-> Undefined, error |-> ""]
Returned(v) == [kind |-> "returned", value |-> v, error |-> ""]
Raised(e) == [kind |-> "raised", value |-> Undefined, error |-> e]

\* replay(overrides) called without an argument
NoOverrides == [given |-> FALSE, map |-> <<>>]

\* neither a wrapped function nor replay was called yet
NoReplay == [op |-> "none", overrides |-> NoOverrides, outcome |-> NoOutcome]

\* processTools was not called yet
NoInput == [shape |-> "none"]

\* no setTimeout is pending
NoTimer == [armed |-> FALSE, fired |-> FALSE, ms |-> 0]
\* the timer whose callback ran
FiredTimer == [armed |-> FALSE, fired |-> TRUE, ms |-> 0]

\* clearXrayContext()
ClearedXray ==
  [agent |-> FALSE, task |-> Null, userPrompt |-> Null, messages |-> "[]",
   iteration |-> Null, previousTools |-> <<>>]

\* injectXrayContext(this, this.lastUserPrompt || '', this.messages || [],
\*                   this.currentIteration, previousTools)
InjectedXray(tr, iter) ==
  [agent |-> TRUE, task |-> OrEmpty(lastUserPrompt),
   userPrompt |-> OrEmpty(lastUserPrompt), messages |-> "this.messages",
   iteration |-> Num(iter),
   previousTools |-> [k \in DOMAIN tr |-> tr[k].tool_name]]

(***************************************************************************)
(* Construction                                                            *)
(***************************************************************************)
Init ==
  /\ tools = ConfigTools
  /\ toolMap = MapOf(ConfigTools)
  /\ messages = <<>>
  /\ currentIteration = 0
  /\ debugEnabled = FALSE
  /\ trace = <<>>
  /\ lastUserPrompt = Null
  /\ xrayContext = ClearedXray
  /\ behaviors = <<>>
  /\ pc = "idle"
  /\ maxIterationsArg = NoOverride
  /\ iterations = 0
  /\ i = 0
  /\ finalResponse = Str("")
  /\ toolSchemas = <<>>
  /\ llmResponse = NoResponse
  /\ toolCalls = <<>>
  /\ tasks = <<>>
  /\ viaAutoDebug = FALSE
  /\ outcome = NoOutcome
  /\ providerCalls = 0
  /\ allHadCalls = TRUE
  /\ providerError = ""
  /\ nDispatched = 0
  /\ callCount = 0
  /\ lastCall = NoCall
  /\ processInput = NoInput
  /\ processed = <<>>
  /\ replayLastCall = Null
  /\ replayReturned = NoReplay
  /\ ws = "none"
  /\ remotePrompt = ""
  /\ inputId = Undefined
  /\ settled = FALSE
  /\ timer = NoTimer
  /\ sent = <<>>
  /\ delivered = <<>>
  /\ promise = NoOutcome
  /\ uuids = 0

(***************************************************************************)
(* executeToolCall.  The invocations of one turn share the trace, the      *)
(* history and the xray context; D carries these through the steps of the  *)
(* invocations: [trace, behaviors, xray, tasks, n].                        *)
(***************************************************************************)
NoResult == [status |-> "pending", result |-> Undefined, error |-> ""]
NoPending == [kind |-> "pending", value |-> Undefined, error |-> ""]

\* the ToolResult values built by executeToolCall
NotFoundResult(name) ==
  [status |-> "not_found", result |-> Undefined,
   error |-> "Tool " \o name \o " not found"]
SuccessResult(output) ==
  [status |-> "success", result |-> output, error |-> ""]
ErrorResult(message) ==
  [status |-> "error", result |-> Undefined, error |-> message]
SkippedResult == SuccessResult(Str("[debugger: skipped]"))

\* this.history.addToolCall(name, args, result, callId)
AddToolCall(behs, task, result) ==
  Append(behs, [type |-> "tool_call", name |-> task.name,
                call_id |-> task.id, status |-> result.status])

\* this.trace.push({ tool_name, timing, status }); time is not modelled
TracePush(tr, name, status) ==
  Append(tr, [tool_name |-> name, status |-> status])

CurD ==
  [trace |-> trace, behaviors |-> behaviors, xray |-> xrayContext,
   tasks |-> tasks, n |-> nDispatched]

\* the catch block and the finally block of executeToolCall
Catch(D, k, message) ==
  LET result == ErrorResult(message)
  IN [D EXCEPT !.behaviors = AddToolCall(@, D.tasks[k], result),
               !.trace = TracePush(@, D.tasks[k].name, "error"),
               !.xray = ClearedXray,
               !.tasks[k].st = "done",
               !.tasks[k].result = result]

\* a slip: the success path returns without the finally block
Succeed_noFinally(D, k, output) ==
  LET result == SuccessResult(output)
  IN [D EXCEPT !.behaviors = AddToolCall(@, D.tasks[k], result),
               !.trace = TracePush(@, D.tasks[k].name, "success"),
               !.tasks[k].st = "done",
               !.tasks[k].result = result]

\* the statements after 'await tool.run(args)' and the finally block
Succeed(D, k, output) ==
  LET result == SuccessResult(output)
  IN [D EXCEPT !.behaviors = AddToolCall(@, D.tasks[k], result),
               !.trace = TracePush(@, D.tasks[k].name, "success"),
               !.xray = ClearedXray,
               !.tasks[k].st = "done",
               !.tasks[k].result = result]

\* a slip: the __skip__ marker is not looked at and the run goes ahead; its
\* synchronous part is that of add, the only flagged tool
Skip_ignored(D, k) ==
  [D EXCEPT !.tasks[k].ran = TRUE,
            !.tasks[k].st = "running",
            !.tasks[k].pending = SyncRun(D.tasks[k].tool, D.tasks[k].args)]

\* the __skip__ branch and the finally block
Skip(D, k) ==
  [D EXCEPT !.behaviors = AddToolCall(@, D.tasks[k], SkippedResult),
            !.xray = ClearedXray,
            !.tasks[k].st = "done",
            !.tasks[k].result = SkippedResult]

\* 'tool.run(args)' is called: a synchronous throw is caught at once,
\* anything else is awaited
CallRun(D, k, args) ==
  LET o == SyncRun(D.tasks[k].tool, args)
      D1 == [D EXCEPT !.tasks[k].ran = TRUE, !.tasks[k].runArgs = args]
  IN IF o.kind = "throw"
     THEN Catch(D1, k, o.error)
     ELSE [D1 EXCEPT !.tasks[k].st = "running", !.tasks[k].pending = o]

\* the awaited run settled with outcome o
Settle(D, k, o) ==
  IF o.kind = "return" THEN Succeed(D, k, o.value) ELSE Catch(D, k, o.error)

NewTask(call, seq) ==
  [id |-> call.id, name |-> call.name, args |-> call.arguments,
   tool |-> NoTool, st |-> "done", pending |-> NoPending,
   ran |-> FALSE, runArgs |-> call.arguments, injected |-> FALSE,
   asked |-> FALSE, cmd |-> "", text |-> "", result |-> NoResult,
   seq |-> seq]

\* a slip: with the debugger on, every tool pauses before its run
AtBreakpoint_anyTool(tool) == debugEnabled

\* the tool is flagged and the debugger is on: pause before the run
AtBreakpoint(tool) == debugEnabled /\ tool.xray

\* executeToolCall(name, args, callId) up to its first await
Begin(D, call) ==
  LET k == Len(D.tasks) + 1
      t0 == NewTask(call, D.n + 1)
  IN IF call.name \notin DOMAIN toolMap
     THEN LET result == NotFoundResult(call.name)
          IN [D EXCEPT !.behaviors = AddToolCall(@, t0, result),
                       !.tasks = Append(@, [t0 EXCEPT !.result = result]),
                       !.n = @ + 1]
     ELSE LET tool == toolMap[call.name]
              t1 == [t0 EXCEPT !.tool = tool, !.injected = TRUE]
              D1 == [D EXCEPT !.xray = InjectedXray(D.trace, currentIteration),
                              !.tasks = Append(@, t1),
                              !.n = @ + 1]
          IN IF AtBreakpoint(tool)
             THEN [D1 EXCEPT !.tasks[k].st = "paused",
                             !.tasks[k].asked = TRUE]
             ELSE CallRun(D1, k, call.arguments)

\* a slip: the calls are awaited one after the other, so that only the
\* first invocation of the turn is started with the turn
BeginAll_firstOnly(D, calls) ==
  IF calls = <<>> THEN D ELSE Begin(D, Head(calls))

\* toolCalls.map(async (toolCall) => ...): every invocation is started, in
\* the order of the calls, before any of them resumes
RECURSIVE BeginAll(_, _)
BeginAll(D, calls) ==
  IF calls = <<>> THEN D ELSE BeginAll(Begin(D, Head(calls)), Tail(calls))

(***************************************************************************)
(* Agent.input                                                             *)
(***************************************************************************)
SystemMessage == [role |-> "system", content |-> Str("You are a test agent")]
UserMessage(prompt) == [role |-> "user", content |-> Str(prompt)]

\* the assistant message of a response
AssistantMessage(resp) ==
  IF Len(resp.toolCalls) > 0
  THEN [role |-> "assistant", content |-> OrEmpty(resp.content),
        tool_calls |-> resp.toolCalls]
  ELSE [role |-> "assistant", content |-> OrEmpty(resp.content)]

\* a slip: the assistant message is pushed only when it has text
HasAssistantMessage_contentOnly(resp) == Truthy(resp.content)

\* the guard of 'this.messages.push(assistantMessage)'
HasAssistantMessage(resp) ==
  Truthy(resp.content) \/ Len(resp.toolCalls) > 0

\* a slip: the tool message carries result.error instead of result.result
ToolMessage_errorField(task) ==
  [role |-> "tool",
   content |-> IF task.result.error = "" THEN Undefined
               ELSE JSONStringify(Str(task.result.error)),
   tool_call_id |-> task.id]

\* the tool message of one element of toolResults
ToolMessage(task) ==
  [role |-> "tool", content |-> JSONStringify(task.result.result),
   tool_call_id |-> task.id]

\* const iterations = maxIterations || this.maxIterations
Iterations(override) ==
  IF override = NoOverride \/ override = 0
  THEN ConfigMaxIterations
  ELSE override

\* a slip: the content is returned without the '|| ""' fallback
FinalResponse_raw(resp) == resp.content

\* the value input() returns when the response carries no tool calls
FinalResponse(resp) == OrEmpty(resp.content)

\* a slip: Promise.race in place of Promise.all
AllSettled_any(ts) == \E k \in DOMAIN ts : ts[k].st = "done"

\* Promise.all(...) of executeToolCalls has resolved
AllSettled(ts) == \A k \in DOMAIN ts : ts[k].st = "done"

\* the loop head: iteration j begins with the provider call
CallProvider(j) ==
  /\ i' = j
  /\ currentIteration' = j + 1
  /\ providerCalls' = providerCalls + 1
  /\ callCount' = callCount + 1
  /\ pc' = "awaitLLM"

\* the statements after the loop: addOutput and return; autoDebug(prompt)
\* switches the debugger off once its input() has returned
Finish(value, behs) ==
  /\ behaviors' = Append(behs, [type |-> "output", output |-> value])
  /\ pc' = "done"
  /\ outcome' = Returned(value)
  /\ debugEnabled' = IF viaAutoDebug THEN FALSE ELSE debugEnabled

\* a slip: every input() starts the conversation afresh
InputBody_fresh(prompt, override) ==
  /\ UNCHANGED otherVars
  /\ pc \in {"idle", "done"}
  /\ callCount + Iterations(override) <= MaxProviderCalls
  /\ maxIterationsArg' = override
  /\ iterations' = Iterations(override)
  /\ messages' = <<SystemMessage, UserMessage(prompt)>>
  /\ lastUserPrompt' = Str(prompt)
  /\ toolSchemas' = [k \in DOMAIN tools |-> tools[k].name]
  /\ finalResponse' = Str("")
  /\ allHadCalls' = TRUE
  /\ providerError' = ""
  /\ llmResponse' = NoResponse
  /\ toolCalls' = <<>>
  /\ tasks' = <<>>
  /\ LET behs == Append(behaviors, [type |-> "input", prompt |-> prompt])
     IN IF 0 < Iterations(override)
        THEN /\ behaviors' = behs
             /\ i' = 0
             /\ currentIteration' = 1
             /\ providerCalls' = 1
             /\ callCount' = callCount + 1
             /\ pc' = "awaitLLM"
             /\ outcome' = NoOutcome
        ELSE /\ behaviors' = Append(behs, [type |-> "output", output |-> Str("")])
             /\ pc' = "done"
             /\ outcome' = Returned(Str(""))
             /\ providerCalls' = 0
             /\ UNCHANGED <<i, currentIteration, callCount>>
  /\ UNCHANGED <<tools, toolMap, trace, xrayContext, nDispatched, lastCall>>

\* input(prompt, maxIterations) up to its first await
InputBody(prompt, override) ==
  /\ UNCHANGED otherVars
  /\ pc \in {"idle", "done"}
  /\ callCount + Iterations(override) <= MaxProviderCalls
  /\ maxIterationsArg' = override
  /\ iterations' = Iterations(override)
  /\ messages' = Append(IF messages = <<>> THEN <<SystemMessage>> ELSE messages,
                        UserMessage(prompt))
  /\ lastUserPrompt' = Str(prompt)
  /\ toolSchemas' = [k \in DOMAIN tools |-> tools[k].name]
  /\ finalResponse' = Str("")
  /\ allHadCalls' = TRUE
  /\ providerError' = ""
  /\ llmResponse' = NoResponse
  /\ toolCalls' = <<>>
  /\ tasks' = <<>>
  /\ LET behs == Append(behaviors, [type |-> "input", prompt |-> prompt])
     IN IF 0 < Iterations(override)
        THEN /\ behaviors' = behs
             /\ i' = 0
             /\ currentIteration' = 1
             /\ providerCalls' = 1
             /\ callCount' = callCount + 1
             /\ pc' = "awaitLLM"
             /\ outcome' = NoOutcome
        ELSE /\ behaviors' = Append(behs, [type |-> "output", output |-> Str("")])
             /\ pc' = "done"
             /\ outcome' = Returned(Str(""))
             /\ providerCalls' = 0
             /\ UNCHANGED <<i, currentIteration, callCount>>
  /\ UNCHANGED <<tools, toolMap, trace, xrayContext, nDispatched, lastCall>>

Input(prompt, override) ==
  /\ InputBody(prompt, override)
  /\ viaAutoDebug' = FALSE
  /\ UNCHANGED debugEnabled

\* autoDebug(prompt): this.debugEnabled = true; await this.input(prompt)
AutoDebug(prompt) ==
  /\ InputBody(prompt, NoOverride)
  /\ viaAutoDebug' = TRUE
  /\ debugEnabled' = TRUE

\* llm.complete resolved with resp
LLMRespond(resp) ==
  /\ UNCHANGED otherVars
  /\ pc = "awaitLLM"
  /\ llmResponse' = resp
  /\ allHadCalls' = (allHadCalls /\ Len(resp.toolCalls) > 0)
  /\ messages' = IF HasAssistantMessage(resp) /\ messages # <<>>
                 THEN Append(messages, AssistantMessage(resp))
                 ELSE messages
  /\ LET behs == Append(behaviors, [type |-> "llm_response",
                                    toolCalls |-> resp.toolCalls])
     IN IF HasAssistantMessage(resp) /\ messages = <<>>
        THEN \* this.messages is null: the push raises a TypeError
             /\ behaviors' = behs
             /\ pc' = "done"
             /\ outcome' = Raised("TypeError")
             /\ UNCHANGED <<finalResponse, debugEnabled, toolCalls, tasks,
                            trace, xrayContext, nDispatched>>
        ELSE IF Len(resp.toolCalls) > 0
        THEN LET D == BeginAll([CurD EXCEPT !.behaviors = behs, !.tasks = <<>>],
                               resp.toolCalls)
             IN /\ toolCalls' = resp.toolCalls
                /\ tasks' = D.tasks
                /\ trace' = D.trace
                /\ behaviors' = D.behaviors
                /\ xrayContext' = D.xray
                /\ nDispatched' = D.n
                /\ pc' = "awaitTools"
                /\ UNCHANGED <<finalResponse, outcome, debugEnabled>>
        ELSE /\ finalResponse' = FinalResponse(resp)
             /\ Finish(FinalResponse(resp), behs)
             /\ UNCHANGED <<toolCalls, tasks, trace, xrayContext, nDispatched>>
  /\ UNCHANGED <<tools, toolMap, currentIteration, lastUserPrompt,
                 maxIterationsArg, iterations, i, toolSchemas, viaAutoDebug,
                 providerCalls, providerError, callCount, lastCall>>

\* a slip: the failed call takes its user message back before it raises
LLMThrow_rollback ==
  /\ UNCHANGED otherVars
  /\ pc = "awaitLLM"
  /\ pc' = "done"
  /\ providerError' = "API unavailable"
  /\ outcome' = Raised("API unavailable")
  /\ messages' = SelectSeq(messages, LAMBDA m : m.role # "user"
                                        \/ m.content # lastUserPrompt)
  /\ UNCHANGED <<tools, toolMap, currentIteration, debugEnabled, trace,
                 lastUserPrompt, sinkVars, maxIterationsArg, iterations, i,
                 finalResponse, toolSchemas, llmResponse, toolCalls, tasks,
                 viaAutoDebug, providerCalls, allHadCalls, nDispatched,
                 callCount, lastCall>>

\* a slip: the provider call is wrapped in a try/catch that ends the loop and
\* returns what finalResponse holds
LLMThrow_swallowed ==
  /\ UNCHANGED otherVars
  /\ pc = "awaitLLM"
  /\ providerError' = "API unavailable"
  /\ Finish(finalResponse, behaviors)
  /\ UNCHANGED <<tools, toolMap, messages, currentIteration, trace,
                 lastUserPrompt, xrayContext, maxIterationsArg, iterations, i,
                 finalResponse, toolSchemas, llmResponse, toolCalls, tasks,
                 viaAutoDebug, providerCalls, allHadCalls, nDispatched,
                 callCount, lastCall>>

\* llm.complete rejected: the error leaves input() through its await
LLMThrow ==
  /\ UNCHANGED otherVars
  /\ pc = "awaitLLM"
  /\ pc' = "done"
  /\ providerError' = "API unavailable"
  /\ outcome' = Raised("API unavailable")
  /\ UNCHANGED <<agentVars, sinkVars, maxIterationsArg, iterations, i,
                 finalResponse, toolSchemas, llmResponse, toolCalls, tasks,
                 viaAutoDebug, providerCalls, allHadCalls, nDispatched,
                 callCount, lastCall>>

\* a step of one executeToolCall invocation of the turn leaves D
DispatchStep(D) ==
  /\ UNCHANGED otherVars
  /\ tasks' = D.tasks
  /\ trace' = D.trace
  /\ behaviors' = D.behaviors
  /\ xrayContext' = D.xray
  /\ nDispatched' = D.n
  /\ UNCHANGED <<tools, toolMap, messages, currentIteration, debugEnabled,
                 lastUserPrompt, pc, maxIterationsArg, iterations, i,
                 finalResponse, toolSchemas, llmResponse, toolCalls,
                 viaAutoDebug, outcome, providerCalls, allHadCalls,
                 providerError, callCount, lastCall>>

\* what is typed at 'debug> [c]ontinue, [e]dit args, [s]kip: '
Commands == {"c", "e", "s"}

\* executeToolCall after 'await this.pauseAtBreakpoint(tool, args)' returned
\* maybeArgs: the skip branch, else the run with maybeArgs when it is truthy
AfterPause(D, k, maybeArgs) ==
  IF IsSkip(maybeArgs) THEN Skip(D, k)
  ELSE LET args == IF maybeArgs = Null THEN D.tasks[k].args ELSE maybeArgs
       IN CallRun([D EXCEPT !.tasks[k].args = args], k, args)

\* pauseAtBreakpoint: the answer to the first question
BreakpointCommand(k, cmd) ==
  /\ pc = "awaitTools"
  /\ k \in DOMAIN tasks
  /\ tasks[k].st = "paused"
  /\ LET D == [CurD EXCEPT !.tasks[k].cmd = cmd]
     IN DispatchStep(
          CASE cmd = "e" -> [D EXCEPT !.tasks[k].st = "editing"]
            [] cmd = "s" -> AfterPause(D, k, SkipMarker)
            [] OTHER -> AfterPause(D, k, tasks[k].args))

\* a slip: JSON.parse is not guarded, and its SyntaxError reaches the catch
\* block of executeToolCall
BreakpointEdit_unguarded(k, text) ==
  /\ pc = "awaitTools"
  /\ k \in DOMAIN tasks
  /\ tasks[k].st = "editing"
  /\ LET D == [CurD EXCEPT !.tasks[k].text = text]
     IN DispatchStep(IF ParseOk(text)
                     THEN AfterPause(D, k, JSONParse(text))
                     ELSE Catch(D, k, "SyntaxError"))

\* pauseAtBreakpoint: the answer to 'args JSON> '
BreakpointEdit(k, text) ==
  /\ pc = "awaitTools"
  /\ k \in DOMAIN tasks
  /\ tasks[k].st = "editing"
  /\ LET maybeArgs == IF ParseOk(text) THEN JSONParse(text) ELSE tasks[k].args
         D == [CurD EXCEPT !.tasks[k].text = text]
     IN DispatchStep(AfterPause(D, k, maybeArgs))

\* what the awaited run of a task can settle with: the value a synchronous
\* run returned, or whatever the asynchronous I/O ends in
SettleOutcomes(task) ==
  IF task.pending.kind = "pending" THEN FetchOutcomes ELSE {task.pending}

\* the awaited tool.run(args) of invocation k settles
ToolSettle(k) ==
  /\ pc = "awaitTools"
  /\ k \in DOMAIN tasks
  /\ tasks[k].st = "running"
  /\ \E o \in SettleOutcomes(tasks[k]) : DispatchStep(Settle(CurD, k, o))

\* a slip: the results are pushed last call first
ToolMessages_reversed(ts, upto) ==
  [k \in 1..upto |-> ToolMessage(ts[upto + 1 - k])]

\* 'for (const result of toolResults) this.messages.push(...)' for the first
\* upto results of Promise.all, which are in the order of the calls
ToolMessages(ts, upto) == [k \in 1..upto |-> ToolMessage(ts[k])]

\* Promise.all resolved: the tool messages are pushed in the order of the
\* calls, and the loop goes to its next iteration or ends
FanIn ==
  /\ UNCHANGED otherVars
  /\ pc = "awaitTools"
  /\ AllSettled(tasks)
  /\ LET bad == IF messages = <<>> THEN DOMAIN tasks
                ELSE {k \in DOMAIN tasks : ~CanStringify(tasks[k].result.result)}
         upto == IF bad = {} THEN Len(tasks)
                 ELSE (CHOOSE k \in bad : \A m \in bad : k <= m) - 1
     IN /\ messages' = messages \o ToolMessages(tasks, upto)
        /\ IF bad # {}
           THEN /\ pc' = "done"
                /\ outcome' = Raised("TypeError")
                /\ UNCHANGED <<i, currentIteration, providerCalls, callCount,
                               behaviors, debugEnabled>>
           ELSE IF i + 1 < iterations
                THEN /\ CallProvider(i + 1)
                     /\ UNCHANGED <<behaviors, outcome, debugEnabled>>
                ELSE /\ Finish(finalResponse, behaviors)
                     /\ UNCHANGED <<i, currentIteration, providerCalls,
                                    callCount>>
  /\ UNCHANGED <<tools, toolMap, trace, lastUserPrompt, xrayContext,
                 maxIterationsArg, iterations, finalResponse, toolSchemas,
                 llmResponse, toolCalls, tasks, viaAutoDebug, allHadCalls,
                 providerError, nDispatched, lastCall>>

\* a slip: the reset also empties the tool list and the name map
ResetConversation_dropsTools ==
  /\ UNCHANGED otherVars
  /\ pc \in {"idle", "done"}
  /\ messages # <<>>
  /\ messages' = <<>>
  /\ behaviors' = <<>>
  /\ tools' = <<>>
  /\ toolMap' = MapOf(<<>>)
  /\ UNCHANGED <<currentIteration, debugEnabled, trace,
                 lastUserPrompt, xrayContext, localVars, obsVars>>

\* resetConversation()
ResetConversation ==
  /\ UNCHANGED otherVars
  /\ pc \in {"idle", "done"}
  /\ messages # <<>>
  /\ messages' = <<>>
  /\ behaviors' = <<>>
  /\ UNCHANGED <<tools, toolMap, currentIteration, debugEnabled, trace,
                 lastUserPrompt, xrayContext, localVars, obsVars>>

\* resetConversation() called while an input() awaits its provider or its
\* tools
ResetDuringInput ==
  /\ UNCHANGED otherVars
  /\ pc \in {"awaitLLM", "awaitTools"}
  /\ messages # <<>>
  /\ messages' = <<>>
  /\ behaviors' = <<>>
  /\ UNCHANGED <<tools, toolMap, currentIteration, debugEnabled, trace,
                 lastUserPrompt, xrayContext, localVars, obsVars>>

\* clearHistory()
ClearHistory ==
  /\ UNCHANGED otherVars
  /\ pc \in {"idle", "done"}
  /\ behaviors # <<>>
  /\ behaviors' = <<>>
  /\ UNCHANGED <<agentVars, xrayContext, localVars, obsVars>>

(***************************************************************************)
(* The tool registry                                                       *)
(***************************************************************************)
\* what addTool is called with, and the names removeTool is called with
AddedTools == {ToolAddAgain, ToolNew}
RemovedNames == {"add", "newTool"}

\* this.tools.findIndex(t => t.name === name); 0 stands for -1
FindIndex(ts, name) ==
  LET found == {k \in DOMAIN ts : ts[k].name = name}
  IN IF found = {} THEN 0 ELSE CHOOSE k \in found : \A m \in found : k <= m

\* this.tools.splice(index, 1)
Splice(ts, index) ==
  SubSeq(ts, 1, index - 1) \o SubSeq(ts, index + 1, Len(ts))

\* this.toolMap.set(t.name, t)
MapSet(map, tool) ==
  [n \in (DOMAIN map) \cup {tool.name} |->
     IF n = tool.name THEN tool ELSE map[n]]

\* this.toolMap.delete(name)
MapDelete(map, name) == [n \in (DOMAIN map) \ {name} |-> map[n]]

\* addTool(tool), for a tool that processTools makes one Tool of
AddTool(tool) ==
  /\ UNCHANGED otherVars
  /\ Len(tools) < MaxTools
  /\ tools' = Append(tools, tool)
  /\ toolMap' = MapSet(toolMap, tool)
  /\ lastCall' = [op |-> "addTool", name |-> tool.name, tool |-> tool,
                  returned |-> FALSE]
  /\ UNCHANGED <<messages, currentIteration, debugEnabled, trace,
                 lastUserPrompt, sinkVars, localVars, outcome, providerCalls,
                 allHadCalls, providerError, nDispatched, callCount>>

\* removeTool(name)
RemoveTool(name) ==
  /\ UNCHANGED otherVars
  /\ LET index == FindIndex(tools, name)
     IN IF index # 0
        THEN /\ tools' = Splice(tools, index)
             /\ toolMap' = MapDelete(toolMap, name)
             /\ lastCall' = [op |-> "removeTool", name |-> name,
                             tool |-> NoTool, returned |-> TRUE]
        ELSE /\ lastCall' = [op |-> "removeTool", name |-> name,
                             tool |-> NoTool, returned |-> FALSE]
             /\ UNCHANGED <<tools, toolMap>>
  /\ UNCHANGED <<messages, currentIteration, debugEnabled, trace,
                 lastUserPrompt, sinkVars, localVars, outcome, providerCalls,
                 allHadCalls, providerError, nDispatched, callCount>>

\* the responses of the provider while the registry changes
RegistryResponses ==
  { [content |-> Str("Final"), toolCalls |-> <<>>],
    [content |-> Null, toolCalls |-> <<Call("call_1", "add")>>],
    [content |-> Null, toolCalls |-> <<Call("call_1", "newTool")>>] }

\* an Agent whose tools are added and removed while it answers prompts of
\* one iteration each
NextRegistry ==
  \/ \E tool \in AddedTools : AddTool(tool)
  \/ \E name \in RemovedNames : RemoveTool(name)
  \/ \E prompt \in Prompts : Input(prompt, 1)
  \/ \E resp \in RegistryResponses : LLMRespond(resp)
  \/ \E k \in DOMAIN tasks : ToolSettle(k)
  \/ FanIn

SpecRegistry == Init /\ [][NextRegistry]_vars

\* an Agent whose tools are added and removed while it answers prompts under
\* the configured cap, so that an invocation has several turns
NextSchemas ==
  \/ \E tool \in AddedTools : AddTool(tool)
  \/ \E name \in RemovedNames : RemoveTool(name)
  \/ \E prompt \in Prompts : Input(prompt, NoOverride)
  \/ \E resp \in RegistryResponses : LLMRespond(resp)
  \/ \E k \in DOMAIN tasks : ToolSettle(k)
  \/ FanIn

SpecSchemas == Init /\ [][NextSchemas]_vars

(***************************************************************************)
(* processTools (tools/tool-utils.ts).  A value handed to it is described  *)
(* by what the code asks of it: its typeof and Array.isArray (shape), its  *)
(* constructor (ctor), its name property, and its own and inherited        *)
(* properties (members), each with its name, whether the name starts with  *)
(* an underscore, and whether its value is a function.                     *)
(***************************************************************************)
Member(name, underscore, callable) ==
  [name |-> name, underscore |-> underscore, callable |-> callable]

\* function func1(): string
Func1 ==
  [shape |-> "function", id |-> "func1", name |-> "func1", ctor |-> "Function",
   members |-> <<>>]

\* new TestClass(), with a public and a private method and a data field
Instance ==
  [shape |-> "object", id |-> "instance", name |-> "", ctor |-> "TestClass",
   members |-> <<Member("count", FALSE, FALSE),
                 Member("constructor", FALSE, TRUE),
                 Member("method1", FALSE, TRUE),
                 Member("_privateMethod", TRUE, TRUE)>>]

\* an object literal that conforms to Tool
CustomTool ==
  [shape |-> "object", id |-> "customTool", name |-> "custom", ctor |-> "Object",
   members |-> <<Member("name", FALSE, FALSE),
                 Member("description", FALSE, FALSE),
                 Member("run", FALSE, TRUE),
                 Member("toFunctionSchema", FALSE, TRUE)>>]

\* new StatefulTool(), of 'class StatefulTool implements Tool'
StatefulTool ==
  [shape |-> "object", id |-> "statefulTool", name |-> "stateful_operations",
   ctor |-> "StatefulTool",
   members |-> <<Member("state", FALSE, FALSE),
                 Member("name", FALSE, FALSE),
                 Member("description", FALSE, FALSE),
                 Member("constructor", FALSE, TRUE),
                 Member("run", FALSE, TRUE),
                 Member("toFunctionSchema", FALSE, TRUE)>>]

\* an object literal with one method, which is no Tool
PlainObject ==
  [shape |-> "object", id |-> "helpers", name |-> "", ctor |-> "Object",
   members |-> <<Member("greet", FALSE, TRUE)>>]

\* a string
OtherValue ==
  [shape |-> "string", id |-> "text", name |-> "", ctor |-> "String",
   members |-> <<>>]

\* an array of values
ArrayOf(items) ==
  [shape |-> "array", id |-> "", name |-> "", ctor |-> "Array",
   members |-> <<>>, items |-> items]

\* undefined
UndefinedInput ==
  [shape |-> "undefined", id |-> "", name |-> "", ctor |-> "", members |-> <<>>]

ToolShapes == {Func1, Instance, CustomTool, StatefulTool, PlainObject, OtherValue}

\* what processTools is called with
ProcessInputs ==
  ToolShapes \cup {UndefinedInput}
  \cup {ArrayOf(items) : items \in UNION {[1..n -> ToolShapes] : n \in 0..MaxListLen}}

\* isClassInstance(obj)
IsClassInstance(obj) ==
  /\ obj.shape \in {"object", "array"}
  /\ obj.ctor # "Object"
  /\ obj.shape # "array"

\* createToolFromFunction(func)
CreateToolFromFunction(func) ==
  [name |-> func.name, xray |-> FALSE, impl |-> func.id]

\* the test of the loop of extractMethodsFromInstance
IsPublicMethod(member) ==
  ~member.underscore /\ member.name # "constructor" /\ member.callable

\* extractMethodsFromInstance(instance): a Tool per public method, whose run
\* applies the method to the instance
ExtractMethodsFromInstance(instance) ==
  LET methods == SelectSeq(instance.members, IsPublicMethod)
  IN [k \in DOMAIN methods |->
        CreateToolFromFunction(
          [name |-> methods[k].name,
           id |-> instance.id \o "." \o methods[k].name])]

\* 'run' in tool
HasProperty(obj, name) ==
  \E k \in DOMAIN obj.members : obj.members[k].name = name

\* a Tool object pushed as it is
AsTool(obj) == [name |-> obj.name, xray |-> FALSE, impl |-> obj.id \o ".run"]

\* the body of the loop of processTools
ProcessOne(tool) ==
  IF IsClassInstance(tool) THEN ExtractMethodsFromInstance(tool)
  ELSE IF tool.shape = "function" THEN <<CreateToolFromFunction(tool)>>
  ELSE IF /\ tool.shape \in {"object", "array"}
          /\ HasProperty(tool, "run")
          /\ HasProperty(tool, "toFunctionSchema")
       THEN <<AsTool(tool)>>
  ELSE <<>>

RECURSIVE ProcessAll(_)
ProcessAll(toolsList) ==
  IF toolsList = <<>> THEN <<>>
  ELSE ProcessOne(Head(toolsList)) \o ProcessAll(Tail(toolsList))

\* processTools(tools)
ProcessTools(toolsArg) ==
  IF toolsArg.shape = "undefined" THEN <<>>
  ELSE ProcessAll(IF toolsArg.shape = "array" THEN toolsArg.items
                  ELSE <<toolsArg>>)

\* a call of processTools, as the constructor and addTool make it
ProcessToolsCall(toolsArg) ==
  /\ processInput' = toolsArg
  /\ processed' = ProcessTools(toolsArg)
  /\ UNCHANGED <<coreVars, replayVars, remoteVars>>

NextToolUtils == \E toolsArg \in ProcessInputs : ProcessToolsCall(toolsArg)

SpecToolUtils == Init /\ [][NextToolUtils]_vars

(***************************************************************************)
(* withReplay and replay (tools/replay.ts).  A function is its source text *)
(* as a sequence of tokens, which getParamNames reads, and its declared    *)
(* parameters with their default values, which a call binds; each of the   *)
(* functions returns the sum of its parameters.                            *)
(***************************************************************************)
NaN == [t |-> "nan"]

\* function add(a, b) { return a + b; }
AddFn ==
  [name |-> "add",
   src |-> <<"function", "add", "(", "a", ",", "b", ")", "{", "return", "a",
             "+", "b", ";", "}">>,
   params |-> <<"a", "b">>, defaults |-> <<Undefined, Undefined>>]

\* (a, b) => a + b
ArrowFn ==
  [name |-> "sum",
   src |-> <<"(", "a", ",", "b", ")", "=>", "a", "+", "b">>,
   params |-> <<"a", "b">>, defaults |-> <<Undefined, Undefined>>]

\* function add(a, b = 1) { return a + b; }
DefaultFn ==
  [name |-> "addOne",
   src |-> <<"function", "addOne", "(", "a", ",", "b", "=", "1", ")", "{",
             "return", "a", "+", "b", ";", "}">>,
   params |-> <<"a", "b">>, defaults |-> <<Undefined, Num(1)>>]

\* function add(a = zero(), b) { return a + b; }
DefaultCallFn ==
  [name |-> "addZero",
   src |-> <<"function", "addZero", "(", "a", "=", "zero", "(", ")", ",", "b",
             ")", "{", "return", "a", "+", "b", ";", "}">>,
   params |-> <<"a", "b">>, defaults |-> <<Num(0), Undefined>>]

\* a => a, of one parameter written without parentheses
BareArrowFn ==
  [name |-> "same",
   src |-> <<"a", "=>", "a">>,
   params |-> <<"a">>, defaults |-> <<Undefined>>]

ReplayFns == {AddFn, ArrowFn, DefaultFn, DefaultCallFn, BareArrowFn}

\* the arguments the wrapped functions are called with
ArgLists ==
  { <<Num(2), Num(3)>>, <<Num(2)>>, <<Num(2), Num(3), Num(4)>> }

\* the overrides replay is called with
OverrideKeys == {"a", "b", "c"}
OverridesArgs ==
  {NoOverrides} \cup
  { [given |-> TRUE, map |-> [n \in keys |-> Num(10)]] :
      keys \in SUBSET OverrideKeys }

\* argsArray[idx], undefined beyond the end of the array
At(argsArray, idx) ==
  IF idx \in DOMAIN argsArray THEN argsArray[idx] ELSE Undefined

\* the sum of a sequence of numbers
RECURSIVE SumOf(_)
SumOf(values) ==
  IF values = <<>> THEN 0 ELSE Head(values).n + SumOf(Tail(values))

\* func.apply(thisArg, argsArray): a parameter without an argument takes its
\* default, and a sum with a non-number is NaN
Apply(func, argsArray) ==
  LET bound == [idx \in DOMAIN func.params |->
                  IF At(argsArray, idx) = Undefined
                  THEN func.defaults[idx] ELSE At(argsArray, idx)]
  IN IF \A idx \in DOMAIN bound : bound[idx].t = "num"
     THEN Num(SumOf(bound)) ELSE NaN

\* the index of the first token tok of src at or after index from, or 0
IndexFrom(src, tok, from) ==
  LET found == {k \in DOMAIN src : k >= from /\ src[k] = tok}
  IN IF found = {} THEN 0 ELSE CHOOSE k \in found : \A m \in found : k <= m

\* raw.split(','): the segments of a token sequence between its commas
RECURSIVE Split(_)
Split(raw) ==
  LET comma == IndexFrom(raw, ",", 1)
  IN IF comma = 0 THEN <<raw>>
     ELSE <<SubSeq(raw, 1, comma - 1)>> \o Split(SubSeq(raw, comma + 1, Len(raw)))

\* the text of a token sequence
RECURSIVE Join(_)
Join(toks) == IF toks = <<>> THEN "" ELSE Head(toks) \o Join(Tail(toks))

\* s.trim().replace(/\s*=.*$/, '').replace(/\?$/, '') of one segment
ParamName(segment) ==
  LET eq == IndexFrom(segment, "=", 1)
      cut == IF eq = 0 THEN segment ELSE SubSeq(segment, 1, eq - 1)
      bare == IF cut # <<>> /\ cut[Len(cut)] = "?"
              THEN SubSeq(cut, 1, Len(cut) - 1) ELSE cut
  IN Join(bare)

\* getParamNames(fn): what stands between the first '(' of the source and
\* the first ')' after it, split at the commas
GetParamNames(fn) ==
  LET open == IndexFrom(fn.src, "(", 1)
      close == IF open = 0 THEN 0 ELSE IndexFrom(fn.src, ")", open + 1)
      raw == SubSeq(fn.src, open + 1, close - 1)
  IN IF open = 0 \/ close = 0 \/ raw = <<>> THEN <<>>
     ELSE LET segments == Split(raw)
          IN [k \in DOMAIN segments |-> ParamName(segments[k])]

\* a call of withReplay(func): the call is recorded, then func is applied
WrappedCall(func, argsArray) ==
  /\ replayLastCall' = [func |-> func, argsArray |-> argsArray,
                        paramNames |-> GetParamNames(func)]
  /\ replayReturned' = [op |-> "call", overrides |-> NoOverrides,
                        outcome |-> Returned(Apply(func, argsArray))]
  /\ UNCHANGED <<coreVars, toolUtilVars, remoteVars>>

\* replay(overrides)
Replay(overrides) ==
  /\ replayReturned' =
       [op |-> "replay", overrides |-> overrides,
        outcome |->
          IF replayLastCall = Null
          THEN Raised("replay(): no function to replay")
          ELSE LET func == replayLastCall.func
                   argsArray == replayLastCall.argsArray
                   paramNames == replayLastCall.paramNames
               IN IF ~overrides.given \/ DOMAIN overrides.map = {}
                  THEN Returned(Apply(func, argsArray))
                  ELSE LET mapped ==
                             IF Len(paramNames) > 0
                             THEN [idx \in DOMAIN paramNames |->
                                     IF paramNames[idx] \in DOMAIN overrides.map
                                     THEN overrides.map[paramNames[idx]]
                                     ELSE At(argsArray, idx)]
                             ELSE argsArray
                       IN Returned(Apply(func, mapped))]
  /\ UNCHANGED <<coreVars, toolUtilVars, remoteVars, replayLastCall>>

NextReplay ==
  \/ \E func \in ReplayFns, argsArray \in ArgLists : WrappedCall(func, argsArray)
  \/ \E overrides \in OverridesArgs : Replay(overrides)

SpecReplay == Init /\ [][NextReplay]_vars

(***************************************************************************)
(* RemoteAgent.input (connect.ts).  One call is in flight at a time; the   *)
(* handlers of a settled call do nothing, so a later call starts afresh.   *)
(***************************************************************************)
\* the timeoutMs input() takes when it is given none
DefaultTimeoutMs == 30000
TimeoutArgs == {DefaultTimeoutMs, 50}
RemotePrompts == {"ping"}
\* this.address
Address == "0xabc123"

\* the n-th value crypto.randomUUID returns
Uuid(n) == [t |-> "uuid", n |-> n]

\* a frame the relay delivers: text that JSON.parse throws on, or the text
\* of data (null, or an object with some of type, input_id, result, error)
Frame(data) == [wellFormed |-> TRUE, data |-> data]
MalformedFrame == [wellFormed |-> FALSE, data |-> Undefined]
NullFrame == Frame(Null)
OutputFrame(id, result) ==
  Frame([type |-> Str("OUTPUT"), input_id |-> id, result |-> result,
         error |-> Undefined])
ErrorFrame(id, error) ==
  Frame([type |-> Str("ERROR"), input_id |-> id, result |-> Undefined,
         error |-> error])
OtherFrame ==
  Frame([type |-> Str("PING"), input_id |-> Undefined, result |-> Undefined,
         error |-> Undefined])

\* the input_id of another request: the one of the call before this one
OtherId == Uuid(uuids - 1)

\* the frames the relay may deliver to the call in flight
RelayFrames ==
  { OutputFrame(inputId, Str("Echo: ping")), OutputFrame(inputId, Undefined),
    OutputFrame(OtherId, Str("Echo: other")),
    ErrorFrame(inputId, Str("not found")), ErrorFrame(OtherId, Str("not found")),
    ErrorFrame(inputId, Undefined),
    OtherFrame, NullFrame, MalformedFrame }

\* data?.field
Get(data, field) == IF data = Null THEN Undefined ELSE data[field]

\* the message onopen sends
InputMessage ==
  [type |-> "INPUT", input_id |-> inputId, to |-> Address,
   prompt |-> remotePrompt]

\* data?.type === 'OUTPUT' && data?.input_id === inputId, with every
\* OUTPUT taken for the answer
IsMatchingOutput_anyId(data) == Get(data, "type") = Str("OUTPUT")

\* data?.type === 'OUTPUT' && data?.input_id === inputId
IsMatchingOutput(data) ==
  Get(data, "type") = Str("OUTPUT") /\ Get(data, "input_id") = inputId

\* data?.type === 'ERROR', with no ERROR recognised
IsError_never(data) == FALSE

\* data?.type === 'ERROR'
IsError(data) == Get(data, "type") = Str("ERROR")

\* data?.result ?? ''
ResultOrEmpty(data) ==
  IF Get(data, "result") \in {Undefined, Null} THEN Str("")
  ELSE Get(data, "result")

\* String(data?.error || 'Agent error')
ErrorText(data) ==
  IF Get(data, "error") \in {Undefined, Null, Str("")} THEN "Agent error"
  ELSE Get(data, "error").s

\* a slip: the timer is left running when the call settles
SettleRemote_keepsTimer(result) ==
  /\ settled' = TRUE
  /\ timer' = timer
  /\ ws' = "closing"
  /\ promise' = result

\* settled = true; clearTimeout(timer); ws.close(); then resolve or reject
SettleRemote(result) ==
  /\ settled' = TRUE
  /\ timer' = NoTimer
  /\ ws' = "closing"
  /\ promise' = result

\* input(prompt, timeoutMs) up to the return of the promise
RemoteInput(prompt, timeoutMs) ==
  /\ ws = "none" \/ promise # NoOutcome
  /\ uuids < MaxRemoteInputs
  /\ uuids' = uuids + 1
  /\ inputId' = Uuid(uuids + 1)
  /\ remotePrompt' = prompt
  /\ ws' = "connecting"
  /\ settled' = FALSE
  /\ timer' = [armed |-> TRUE, fired |-> FALSE, ms |-> timeoutMs]
  /\ sent' = <<>>
  /\ delivered' = <<>>
  /\ promise' = NoOutcome
  /\ UNCHANGED <<coreVars, toolUtilVars, replayVars>>

\* ws.onopen; sendThrows says whether ws.send throws
OnOpen(sendThrows) ==
  /\ ws = "connecting"
  /\ IF ~sendThrows
     THEN /\ sent' = Append(sent, InputMessage)
          /\ ws' = "open"
          /\ UNCHANGED <<settled, timer, promise>>
     ELSE /\ timer' = NoTimer
          /\ IF ~settled
             THEN /\ settled' = TRUE
                  /\ ws' = "closing"
                  /\ promise' = Raised("send failed")
             ELSE UNCHANGED <<settled, ws, promise>>
          /\ UNCHANGED sent
  /\ UNCHANGED <<coreVars, toolUtilVars, replayVars, remotePrompt, inputId,
                 delivered, uuids>>

\* ws.onmessage
OnMessage ==
  /\ ws \in {"open", "closing"}
  /\ Len(delivered) < MaxFrames
  /\ \E frame \in RelayFrames :
       /\ delivered' = Append(delivered, frame)
       /\ IF settled THEN UNCHANGED <<settled, timer, ws, promise>>
          ELSE IF ~frame.wellFormed THEN SettleRemote(Raised("SyntaxError"))
          ELSE IF IsMatchingOutput(frame.data)
               THEN SettleRemote(Returned(ResultOrEmpty(frame.data)))
          ELSE IF IsError(frame.data)
               THEN SettleRemote(Raised(ErrorText(frame.data)))
          ELSE UNCHANGED <<settled, timer, ws, promise>>
  /\ UNCHANGED <<coreVars, toolUtilVars, replayVars, remotePrompt, inputId,
                 sent, uuids>>

\* ws.onerror
OnError ==
  /\ ws \in {"connecting", "open", "closing"}
  /\ IF settled THEN UNCHANGED <<settled, timer, ws, promise>>
     ELSE SettleRemote(Raised("WebSocket error: failed"))
  /\ UNCHANGED <<coreVars, toolUtilVars, replayVars, remotePrompt, inputId,
                 sent, delivered, uuids>>

\* ws.onclose
OnClose ==
  /\ ws \in {"connecting", "open", "closing"}
  /\ ws' = "closed"
  /\ IF ~settled
     THEN /\ settled' = TRUE
          /\ timer' = NoTimer
          /\ promise' = Raised("Connection closed before response")
     ELSE UNCHANGED <<settled, timer, promise>>
  /\ UNCHANGED <<coreVars, toolUtilVars, replayVars, remotePrompt, inputId,
                 sent, delivered, uuids>>

\* the callback of setTimeout, which closes the socket without rejecting
TimerFire_silent ==
  /\ timer.armed
  /\ timer' = FiredTimer
  /\ ws' = IF settled THEN ws ELSE "closing"
  /\ UNCHANGED <<settled, promise>>
  /\ UNCHANGED <<coreVars, toolUtilVars, replayVars, remotePrompt, inputId,
                 sent, delivered, uuids>>

\* the callback of setTimeout(..., timeoutMs)
TimerFire ==
  /\ timer.armed
  /\ timer' = FiredTimer
  /\ IF ~settled
     THEN /\ settled' = TRUE
          /\ ws' = "closing"
          /\ promise' = Raised("Connection timed out")
     ELSE UNCHANGED <<settled, ws, promise>>
  /\ UNCHANGED <<coreVars, toolUtilVars, replayVars, remotePrompt, inputId,
                 sent, delivered, uuids>>

NextRemote ==
  \/ \E prompt \in RemotePrompts, timeoutMs \in TimeoutArgs :
       RemoteInput(prompt, timeoutMs)
  \/ \E sendThrows \in BOOLEAN : OnOpen(sendThrows)
  \/ OnMessage
  \/ OnError
  \/ OnClose
  \/ TimerFire

SpecRemote == Init /\ [][NextRemote]_vars

\* the timer set by setTimeout fires once its delay has passed
SpecRemoteFair == Init /\ [][NextRemote]_vars /\ WF_vars(TimerFire)

Next ==
  \/ \E prompt \in Prompts, override \in Overrides : Input(prompt, override)
  \/ \E prompt \in Prompts : AutoDebug(prompt)
  \/ \E resp \in LLMResponses : LLMRespond(resp)
  \/ LLMThrow
  \/ \E k \in DOMAIN tasks, cmd \in Commands : BreakpointCommand(k, cmd)
  \/ \E k \in DOMAIN tasks, text \in EditTexts : BreakpointEdit(k, text)
  \/ \E k \in DOMAIN tasks : ToolSettle(k)
  \/ FanIn
  \/ ResetConversation
  \/ ClearHistory

Spec == Init /\ [][Next]_vars

\* the conversation may also be reset while an input() is under way
NextReset ==
  \/ Next
  \/ ResetDuringInput

SpecReset == Init /\ [][NextReset]_vars

\* every provider call and every tool run settles, every breakpoint prompt
\* is answered, and a resolved Promise.all resumes input()
SpecFair ==
  /\ Init /\ [][Next]_vars
  /\ WF_vars((\E resp \in LLMResponses : LLMRespond(resp)) \/ LLMThrow)
  /\ WF_vars(\E k \in DOMAIN tasks, cmd \in Commands : BreakpointCommand(k, cmd))
  /\ WF_vars(\E k \in DOMAIN tasks, text \in EditTexts : BreakpointEdit(k, text))
  /\ WF_vars(\E k \in DOMAIN tasks : ToolSettle(k))
  /\ WF_vars(FanIn)

(***************************************************************************)
(* Properties                                                              *)
(***************************************************************************)
\* the cap a caller asked for: the override when given, else the configured
RequestedCap ==
  IF maxIterationsArg = NoOverride THEN ConfigMaxIterations ELSE maxIterationsArg

\* the loop is at a provider call that follows a turn of tool calls; tasks
\* and toolCalls are those of that turn
AtNextProviderCall == pc = "awaitLLM" /\ i > 0

\* the message appended for call k of the last dispatched turn, when the
\* whole turn was appended
TurnMessage(k) == messages[Len(messages) - Len(tasks) + k]

\* the conversation holds a tool message for call id
HasToolMessage(id) ==
  \E m \in DOMAIN messages :
    messages[m].role = "tool" /\ messages[m].tool_call_id = id

\* C1 (as stated): when every response of an input() call carried a tool
\* call and the provider never failed, the call made exactly as many provider
\* calls as the cap asked for (the override when given, else the configured
\* one) and returned the empty string without raising.
C1_BoundedIteration ==
  (pc = "done" /\ allHadCalls /\ providerError = "")
    => (providerCalls = RequestedCap /\ outcome = Returned(Str("")))

\* C2: when the first response of an input() call carries no tool calls,
\* that call is over after exactly one provider call and has returned the
\* response's content, or the empty string when the content is absent.
C2_TerminationOnText ==
  (llmResponse # NoResponse /\ Len(llmResponse.toolCalls) = 0 /\ i = 0)
    => /\ pc = "done"
       /\ providerCalls = 1
       /\ outcome = Returned(IF llmResponse.content = Null
                             THEN Str("") ELSE llmResponse.content)

\* C2 witness: a first response with text and no tool calls was returned
C2_Witness ==
  /\ pc = "done"
  /\ i = 0
  /\ llmResponse = [content |-> Str("Final"), toolCalls |-> <<>>]
  /\ outcome = Returned(Str("Final"))

SkippedAtBreakpoint(k) ==
  \/ tasks[k].cmd = "s"
  \/ tasks[k].cmd = "e" /\ tasks[k].text = "{\"__skip__\":true}"
ReplacedAtBreakpoint(k) ==
  tasks[k].cmd = "e" /\ tasks[k].text = "{\"a\":1,\"b\":2}"

C4_UnknownTool ==
  \A k \in DOMAIN tasks :
    tasks[k].name \notin DOMAIN toolMap =>
      /\ tasks[k].result.status = "not_found"
      /\ ~tasks[k].injected /\ ~tasks[k].asked /\ ~tasks[k].ran
      /\ (pc \in {"awaitLLM", "done"} /\ messages # <<>>) =>
           /\ HasToolMessage(tasks[k].id)
           /\ outcome.error # "TypeError"

\* C5 (as stated): a call whose run threw or rejected has an error result
\* carrying the thrown message; once the turn is over a tool message for its
\* id is in the conversation, input() has not raised on the turn's results,
\* and a following response without tool calls is what input() returns.
C5_ToolExceptionIsolation ==
  \A k \in DOMAIN tasks :
    (tasks[k].ran /\ tasks[k].result.status = "error") =>
      /\ tasks[k].result.error =
           (IF tasks[k].tool.impl = "errorTool" THEN "Tool error" ELSE "timeout")
      /\ (pc \in {"awaitLLM", "done"} /\ messages # <<>>) =>
           /\ HasToolMessage(tasks[k].id)
           /\ outcome.error # "TypeError"
           /\ (pc = "done" /\ providerError = "") =>
                /\ outcome.kind = "returned"
                /\ Len(llmResponse.toolCalls) = 0 =>
                     outcome.value = (IF llmResponse.content = Null
                                      THEN Str("") ELSE llmResponse.content)

\* C6: whenever the provider is called after a turn of tool calls, every
\* call of that turn has settled and the conversation ends with the tool
\* messages of the turn, one per call, whichever call completed first.
C6_FanInBarrier ==
  AtNextProviderCall =>
    /\ Len(tasks) = Len(toolCalls)
    /\ Len(tasks) > 0
    /\ \A k \in DOMAIN tasks :
         /\ tasks[k].st = "done"
         /\ tasks[k].result.status \in {"success", "error", "not_found"}
         /\ TurnMessage(k).role = "tool"
         /\ TurnMessage(k).tool_call_id = toolCalls[k].id

\* C6 witness: the provider is called after a turn of two calls of which
\* the second completed before the first
C6_Witness ==
  /\ AtNextProviderCall
  /\ Len(tasks) = 2
  /\ tasks[1].ran /\ tasks[2].ran
  /\ tasks[1].name # tasks[2].name
  /\ trace[Len(trace)].tool_name = tasks[1].name

\* C7: once a provider call of an input() call has raised, that input()
\* has rejected with the same error, has returned nothing, and for the rest
\* of the invocation no provider call and no tool dispatch is made.
C7_ProviderFailureFatal ==
  [][providerError' # "" =>
       /\ pc' = "done"
       /\ outcome' = Raised(providerError')
       /\ providerError # "" =>
            /\ callCount' = callCount
            /\ nDispatched' = nDispatched
            /\ messages' \in {messages, <<>>}]_vars

\* C7 witness: the provider raised in the second iteration of an input()
C7_Witness ==
  /\ providerError # ""
  /\ pc = "done"
  /\ i = 1
  /\ outcome.kind = "raised"

\* C8 (as stated): an input() call in which no provider call failed never
\* raises: it ends in a returned string.
C8_PropagationPolicy ==
  (pc = "done" /\ providerError = "") => outcome.kind = "returned"

\* C9: every tool message of the conversation follows an assistant message
\* that carries a tool call of the same id, with only tool messages between
\* the two.
C9_ConversationInvariant ==
  \A m \in DOMAIN messages :
    messages[m].role = "tool" =>
      \E j \in 1..(m - 1) :
        /\ messages[j].role = "assistant"
        /\ "tool_calls" \in DOMAIN messages[j]
        /\ \E c \in DOMAIN messages[j].tool_calls :
             messages[j].tool_calls[c].id = messages[m].tool_call_id
        /\ \A l \in (j + 1)..(m - 1) : messages[l].role = "tool"

\* C9 witness: a conversation with two tool messages after one assistant
\* message of two calls
C9_Witness ==
  \E m \in DOMAIN messages :
    /\ m > 2
    /\ messages[m].role = "tool"
    /\ messages[m - 1].role = "tool"
    /\ messages[m - 2].role = "assistant"

\* C10 (as stated): once every dispatch made so far has ended, the trace
\* has one entry per dispatch, and the entry at a dispatch's position names
\* its tool and carries the status of its result.
C10_TraceCompleteness ==
  (\A k \in DOMAIN tasks : tasks[k].st = "done") =>
    /\ Len(trace) = nDispatched
    /\ \A k \in DOMAIN tasks :
         /\ tasks[k].seq \in DOMAIN trace
         /\ trace[tasks[k].seq].tool_name = tasks[k].name
         /\ trace[tasks[k].seq].status = tasks[k].result.status

\* C11 (as stated): a step of resetConversation or of clearHistory leaves
\* the trace empty, and with it the list of previous tool names that the
\* next dispatch hands to the xray context.
C11_TraceReset ==
  [][(ResetConversation \/ ClearHistory) =>
       /\ trace' = <<>>
       /\ InjectedXray(trace', currentIteration').previousTools = <<>>]_vars

\* C12 (as stated): a call answered with skip at its breakpoint has the
\* success result "[skipped]" and its tool was not run.
C12_SkipSentinel ==
  \A k \in DOMAIN tasks :
    tasks[k].cmd = "s" =>
      /\ tasks[k].result = SuccessResult(Str("[skipped]"))
      /\ ~tasks[k].ran

\* C12 (amended): a call answered with skip at its breakpoint, which only
\* a flagged tool under an enabled debugger has, ends at once with the
\* success result "[debugger: skipped]" and its tool was not run.
C12_SkipDebuggerSentinel ==
  \A k \in DOMAIN tasks :
    tasks[k].cmd = "s" =>
      /\ tasks[k].tool.xray /\ tasks[k].asked
      /\ tasks[k].st = "done"
      /\ tasks[k].result.status = "success"
      /\ tasks[k].result.result = Str("[debugger: skipped]")
      /\ ~tasks[k].ran

\* C12 witness: the debugger is on and the call of add was skipped
C12_Witness ==
  /\ debugEnabled
  /\ pc = "awaitTools"
  /\ \E k \in DOMAIN tasks : tasks[k].name = "add" /\ tasks[k].cmd = "s"

\* dispatch k ends in the step: it is over after the step and was not before
\* (the turn is new, or the dispatch was still under way)
Ends(k) ==
  /\ tasks' # tasks
  /\ k \in DOMAIN tasks'
  /\ tasks'[k].injected
  /\ tasks'[k].st = "done"
  /\ (pc = "awaitLLM" \/ tasks[k].st # "done")

\* no dispatch of the turn is started after dispatch k in the same step
NoLaterStart(k) ==
  pc = "awaitLLM" =>
    \A j \in DOMAIN tasks' : j > k => ~tasks'[j].injected

\* C13: whenever the dispatch of a registered tool ends, be it by a
\* returned value, by a thrown error or by a skip at the breakpoint, the
\* xray context is in its cleared state, until a later dispatch fills it.
C13_XrayCleanup ==
  [][\A k \in DOMAIN tasks' :
       (Ends(k) /\ NoLaterStart(k)) => xrayContext' = ClearedXray]_vars

\* C13 witness: of the two calls of a turn one ended by an error and the
\* other by a skip, and the xray context is cleared
C13_Witness ==
  /\ pc = "awaitTools"
  /\ Len(tasks) = 2
  /\ tasks[1].st = "done" /\ tasks[1].result.status = "error"
  /\ tasks[2].st = "done" /\ tasks[2].cmd = "s"
  /\ xrayContext = ClearedXray

\* C14: a call whose breakpoint was answered with edit and a text that is
\* not JSON is run with the arguments the provider gave; the dispatch goes
\* on to the run and ends with the value the tool returns for them.
C14_EditFallback ==
  \A k \in DOMAIN tasks :
    (tasks[k].cmd = "e" /\ tasks[k].text = "not json") =>
      /\ tasks[k].ran
      /\ tasks[k].runArgs = toolCalls[k].arguments
      /\ tasks[k].st \in {"running", "done"}
      /\ tasks[k].st = "done" => tasks[k].result = SuccessResult(Num(8))

\* C14 witness: add was run after a malformed edit and returned 8
C14_Witness ==
  \E k \in DOMAIN tasks :
    /\ tasks[k].cmd = "e" /\ tasks[k].text = "not json"
    /\ tasks[k].st = "done"
    /\ tasks[k].result = SuccessResult(Num(8))

\* the tools of the list registered under a name
Listed(name) == {k \in DOMAIN tools : tools[k].name = name}

\* C15 (as stated): no two entries of the tool list, nor of the schemas in
\* the hands of the provider, carry the same name, and after addTool(t) the
\* one entry of t's name is t, in the list and in the lookup.
C15_RegistryReplacement ==
  /\ \A j, k \in DOMAIN tools : tools[j].name = tools[k].name => j = k
  /\ pc = "awaitLLM" =>
       \A j, k \in DOMAIN toolSchemas : toolSchemas[j] = toolSchemas[k] => j = k
  /\ lastCall.op = "addTool" =>
       /\ \A k \in Listed(lastCall.name) : tools[k] = lastCall.tool
       /\ Listed(lastCall.name) # {}
       /\ toolMap[lastCall.name] = lastCall.tool

\* C16 (as stated): removeTool(name) returns true exactly when the name was
\* listed or looked up just before; after it the name is neither listed nor
\* looked up; and when it follows removeTool of the same name at once, it
\* returns false and leaves the list and the lookup as they were.
C16_RemovalByName ==
  [][\A name \in RemovedNames :
       RemoveTool(name) =>
         /\ lastCall'.returned = (Listed(name) # {} \/ name \in DOMAIN toolMap)
         /\ \A k \in DOMAIN tools' : tools'[k].name # name
         /\ name \notin DOMAIN toolMap'
         /\ (lastCall.op = "removeTool" /\ lastCall.name = name) =>
              /\ ~lastCall'.returned
              /\ tools' = tools
              /\ toolMap' = toolMap]_vars

\* sequence a is an initial part of sequence b
IsPrefix(a, b) == Len(a) <= Len(b) /\ SubSeq(b, 1, Len(a)) = a

\* C17: a conversation starts with the one system message it ever holds;
\* as long as it is not reset its messages stay, in their order, before
\* whatever is appended; and an input() call appends the new user message
\* to the conversation of the earlier calls before it calls the provider.
C17_ConversationPersistence ==
  [][/\ messages' # <<>> =>
          /\ messages'[1] = SystemMessage
          /\ \A m \in DOMAIN messages' : messages'[m].role = "system" => m = 1
     /\ (messages # <<>> /\ messages' # <<>>) => IsPrefix(messages, messages')
     /\ (pc \in {"idle", "done"} /\ pc' = "awaitLLM") =>
          messages' = Append(IF messages = <<>> THEN <<SystemMessage>>
                             ELSE messages,
                             [role |-> "user", content |-> lastUserPrompt'])]_vars

\* C17 witness: the provider is called for a second input() with the
\* conversation of the first one, its tool turn included, before the new
\* user message
C17_Witness ==
  /\ pc = "awaitLLM"
  /\ i = 0
  /\ callCount = 2
  /\ Len(messages) > 4
  /\ messages[1].role = "system"
  /\ messages[2].role = "user"
  /\ messages[3].role = "assistant"
  /\ messages[Len(messages)].role = "user"

\* the events of the log from the input event of the last input() call on
HasInputEvent == \E k \in DOMAIN behaviors : behaviors[k].type = "input"
LastInputEvent ==
  CHOOSE k \in DOMAIN behaviors :
    /\ behaviors[k].type = "input"
    /\ \A m \in DOMAIN behaviors : behaviors[m].type = "input" => m <= k
EventsOfCall == SubSeq(behaviors, LastInputEvent, Len(behaviors))

\* events s are the turns of an input() call and its output event: each
\* provider-response event is followed by one tool-call event per call it
\* requested, and the output event is the last event
RECURSIVE TurnsThenOutput(_)
TurnsThenOutput(s) ==
  IF s = <<>> THEN FALSE
  ELSE IF s[1].type = "output" THEN Len(s) = 1
  ELSE /\ s[1].type = "llm_response"
       /\ LET n == Len(s[1].toolCalls)
          IN /\ Len(s) > n + 1
             /\ \A j \in 2..(n + 1) : s[j].type = "tool_call"
             /\ {s[j].call_id : j \in 2..(n + 1)} =
                  {s[1].toolCalls[c].id : c \in 1..n}
             /\ TurnsThenOutput(SubSeq(s, n + 2, Len(s)))

\* C18 (as stated): the events a finished input() call has logged are one
\* input event, then turn by turn a provider-response event followed by one
\* tool-call event per requested call, and one output event last.
C18_LogOrdering ==
  (pc = "done" /\ HasInputEvent) =>
    /\ EventsOfCall[1].type = "input"
    /\ TurnsThenOutput(Tail(EventsOfCall))

\* C19 (as stated): a finished input() call whose input event is in the log
\* has logged exactly one output event, the last event of the log, whether
\* it returned or raised.
C19_CompletionRecorded ==
  (pc = "done" /\ HasInputEvent) =>
    /\ EventsOfCall[Len(EventsOfCall)].type = "output"
    /\ Cardinality({k \in DOMAIN EventsOfCall :
                      EventsOfCall[k].type = "output"}) = 1

\* C20: while a turn is under way every call of it has been dispatched, and
\* every call that found its tool and is not held at a breakpoint has had
\* its run started, whether or not the other calls have settled.
C20_FanOut ==
  pc = "awaitTools" =>
    /\ Len(tasks) = Len(toolCalls)
    /\ \A k \in DOMAIN tasks :
         (/\ tasks[k].injected
          /\ tasks[k].st \notin {"paused", "editing"}
          /\ ~SkippedAtBreakpoint(k)) => tasks[k].ran

\* C20 witness: the runs of both calls of a turn are under way and neither
\* has settled
C20_Witness ==
  /\ pc = "awaitTools"
  /\ Len(tasks) = 2
  /\ tasks[1].st = "running" /\ tasks[1].ran
  /\ tasks[2].st = "running" /\ tasks[2].ran

\* the elements of what processTools was given
ElementsOf(toolsArg) ==
  IF toolsArg.shape = "array" THEN toolsArg.items
  ELSE IF toolsArg.shape = "undefined" THEN <<>> ELSE <<toolsArg>>

\* an object that conforms to Tool: it has a run and a toFunctionSchema method
IsConformantTool(x) ==
  /\ x.shape = "object"
  /\ \E k \in DOMAIN x.members :
       x.members[k].name = "run" /\ x.members[k].callable
  /\ \E k \in DOMAIN x.members :
       x.members[k].name = "toFunctionSchema" /\ x.members[k].callable

\* the tools the claim gives to one element
ClaimedFor(x) ==
  IF x.shape = "function" THEN {CreateToolFromFunction(x)}
  ELSE IF IsConformantTool(x) THEN {AsTool(x)}
  ELSE IF x.shape = "object"
       THEN {[name |-> x.members[k].name, xray |-> FALSE,
              impl |-> x.id \o "." \o x.members[k].name] :
               k \in {j \in DOMAIN x.members : IsPublicMethod(x.members[j])}}
  ELSE {}

\* C21 (as stated): what processTools makes of a function is one Tool of
\* the function's name, of an object one Tool per public method, bound to
\* the object, of a conformant Tool the Tool itself under its own name, and
\* of a list the tools of all its elements.
C21_RegistrationShapes ==
  processInput # NoInput =>
    LET elems == ElementsOf(processInput)
    IN \A x \in {elems[k] : k \in DOMAIN elems} :
         /\ \A t \in ClaimedFor(x) : \E k \in DOMAIN processed : processed[k] = t
         /\ \A k \in DOMAIN processed :
              (\E t \in ClaimedFor(x) : t.impl = processed[k].impl) =>
                processed[k] \in ClaimedFor(x)

\* the arguments the claim has replay apply the function to: for each
\* declared parameter the override of its name, else the argument of the
\* recorded call
ClaimedArgs(func, argsArray, overrides) ==
  [idx \in DOMAIN func.params |->
     IF overrides.given /\ func.params[idx] \in DOMAIN overrides.map
     THEN overrides.map[func.params[idx]]
     ELSE At(argsArray, idx)]

\* C22 (as stated): replay(overrides) after a call of a wrapped function
\* returns what the function of the most recent call returns for that
\* call's arguments with the overridden parameters replaced; add(2, 3)
\* followed by replay({b: 10}) returns 12.
C22_ReplayWithOverrides ==
  (replayReturned.op = "replay" /\ replayLastCall # Null) =>
    /\ replayReturned.outcome =
         Returned(Apply(replayLastCall.func,
                        ClaimedArgs(replayLastCall.func,
                                    replayLastCall.argsArray,
                                    replayReturned.overrides)))
    /\ (/\ replayLastCall.func = AddFn
        /\ replayLastCall.argsArray = <<Num(2), Num(3)>>
        /\ replayReturned.overrides = [given |-> TRUE,
                                       map |-> [n \in {"b"} |-> Num(10)]]) =>
         replayReturned.outcome = Returned(Num(12))

\* C23 (as stated): a replay of a recorded call appends one entry to the
\* trace and leaves the entries before it as they were.
C23_ReplayIsDispatch ==
  [][\A overrides \in OverridesArgs :
       (Replay(overrides) /\ replayLastCall # Null) =>
         /\ Len(trace') = Len(trace) + 1
         /\ SubSeq(trace', 1, Len(trace)) = trace]_vars

\* the frame is an OUTPUT carrying the input_id id
IsOutputFor(frame, id) ==
  /\ frame.wellFormed /\ frame.data # Null
  /\ frame.data.type = Str("OUTPUT") /\ frame.data.input_id = id

\* the frame is a message the claim has ignored: an OUTPUT for another
\* input_id, or a message of a type other than OUTPUT and ERROR
IsUnrelated(frame, id) ==
  /\ frame.wellFormed /\ frame.data # Null
  /\ \/ frame.data.type = Str("OUTPUT") /\ frame.data.input_id # id
     \/ frame.data.type \notin {Str("OUTPUT"), Str("ERROR")}

\* the frame is an ERROR message
IsErrorFrame(frame) ==
  frame.wellFormed /\ frame.data # Null /\ frame.data.type = Str("ERROR")

\* this step delivers a frame to a call that is still waiting
DeliversWaiting == Len(delivered') = Len(delivered) + 1 /\ ~settled

\* C24: input(prompt) sends nothing before the socket is open and, once it
\* is, one INPUT message with a fresh input_id, the address and the prompt;
\* a waiting call resolves with the result of the first OUTPUT carrying that
\* input_id, and an OUTPUT for another input_id or a message of another
\* non-ERROR type leaves it waiting.
C24_RemoteMatching ==
  [][/\ uuids' # uuids =>
          /\ inputId' \notin {Uuid(n) : n \in 0..uuids}
          /\ sent' = <<>>
     /\ (ws = "connecting" /\ ws' = "open") =>
          sent' = <<[type |-> "INPUT", input_id |-> inputId, to |-> Address,
                     prompt |-> remotePrompt]>>
     /\ (uuids' = uuids /\ ~(ws = "connecting" /\ ws' = "open")) => sent' = sent
     /\ DeliversWaiting =>
          LET frame == delivered'[Len(delivered')]
          IN /\ (IsOutputFor(frame, inputId) /\ frame.data.result # Undefined) =>
                  promise' = Returned(frame.data.result)
             /\ IsOutputFor(frame, inputId) => promise'.kind = "returned"
             /\ IsUnrelated(frame, inputId) =>
                  /\ promise' = NoOutcome
                  /\ ~settled'
                  /\ timer' = timer /\ timer.armed
                  /\ ws' = "open"
     /\ promise'.kind = "returned" =>
          \E k \in DOMAIN delivered' :
            /\ IsOutputFor(delivered'[k], inputId')
            /\ \A m \in 1..(k - 1) : ~IsOutputFor(delivered'[m], inputId')
            /\ delivered'[k].data.result # Undefined =>
                 promise'.value = delivered'[k].data.result]_vars

\* the call resolved with the matching OUTPUT after an OUTPUT for another
\* input_id and a message of another type were delivered and ignored
C24_Witness ==
  /\ promise = Returned(Str("Echo: ping"))
  /\ Len(sent) = 1
  /\ Len(delivered) = 3
  /\ delivered[1] = OutputFrame(OtherId, Str("Echo: other"))
  /\ delivered[2] = OtherFrame
  /\ delivered[3] = OutputFrame(inputId, Str("Echo: ping"))

\* C25: an ERROR message delivered to a waiting call rejects it with the
\* ERROR's error text, and a rejected call never resolves.
C25_RemoteError ==
  [][/\ DeliversWaiting =>
          LET frame == delivered'[Len(delivered')]
          IN /\ IsErrorFrame(frame) => promise'.kind = "raised"
             /\ (IsErrorFrame(frame) /\ frame.data.error.t = "str") =>
                  promise' = Raised(frame.data.error.s)
     /\ (promise.kind = "raised" /\ uuids' = uuids) => promise' = promise]_vars

\* the call was rejected with the ERROR's text, and the matching OUTPUT
\* delivered after it changed nothing
C25_Witness ==
  /\ promise = Raised("not found")
  /\ Len(delivered) = 2
  /\ delivered[1] = ErrorFrame(inputId, Str("not found"))
  /\ delivered[2] = OutputFrame(inputId, Str("Echo: ping"))

\* C26: when the timeout timer fires, the call is rejected with
\* 'Connection timed out' (every other way of settling has cleared the
\* timer), and every input() call eventually settles.
C26_RemoteTimeout ==
  /\ [](timer.fired => promise = Raised("Connection timed out"))
  /\ [](promise # NoOutcome => ~timer.armed)
  /\ (ws # "none" /\ promise = NoOutcome) ~> (promise # NoOutcome)

\* the timer fired on a call that had only been sent unrelated messages
C26_Witness ==
  /\ promise = Raised("Connection timed out")
  /\ timer.fired
  /\ Len(sent) = 1
  /\ Len(delivered) = 2
  /\ \A k \in DOMAIN delivered : IsUnrelated(delivered[k], inputId)

\* C27 (as stated): an input() call given the override n >= 0 makes at most
\* n provider calls, and a call without an override runs under the
\* configured cap, whatever the calls before it were given.
C27_PerCallCap ==
  /\ maxIterationsArg # NoOverride => providerCalls <= maxIterationsArg
  /\ (maxIterationsArg = NoOverride /\ pc # "idle") =>
       (iterations = ConfigMaxIterations /\ providerCalls <= ConfigMaxIterations)

\* C28: while the calls of a turn are in flight, the dispatch of a
\* registered tool has waited for a caller command if and only if debugging
\* is enabled and the tool is flagged; a dispatch that did not wait called
\* the tool's run at once, and a dispatch that waits has not called it
\* before a command was given.
C28_BreakpointCondition ==
  pc = "awaitTools" =>
    \A k \in DOMAIN tasks :
      /\ tasks[k].tool = NoTool => ~tasks[k].asked
      /\ tasks[k].tool # NoTool =>
           /\ tasks[k].asked <=> (debugEnabled /\ tasks[k].tool.xray)
           /\ ~tasks[k].asked => (tasks[k].ran /\ tasks[k].cmd = "")
           /\ tasks[k].st = "paused" => (tasks[k].asked /\ ~tasks[k].ran)

\* a turn under the debugger in which the flagged add waits at the
\* breakpoint while the unflagged fetch is already running
C28_Witness ==
  /\ pc = "awaitTools"
  /\ debugEnabled
  /\ \E k, m \in DOMAIN tasks :
       /\ tasks[k].tool = ToolAdd /\ tasks[k].st = "paused" /\ ~tasks[k].ran
       /\ tasks[m].tool = ToolFetch /\ tasks[m].st = "running"
       /\ ~tasks[m].asked

\* the well-formed structured texts an edit is answered with, and the
\* arguments each of them stands for
StructuredTexts == {"{\"a\":1,\"b\":2}", "{\"__skip__\":true}"}
ReplacementOf(text) ==
  IF text = "{\"a\":1,\"b\":2}" THEN [a |-> 1, b |-> 2] ELSE [__skip__ |-> TRUE]

\* C29 (as stated): once an edit at the breakpoint of call k was answered
\* with well-formed structured arguments, the tool's run has been invoked
\* with the replacement and not with the original arguments, and the
\* result of the dispatch is the result of that run; after continue the
\* run has been invoked with the original arguments.
C29_BreakpointEdit ==
  pc = "awaitTools" =>
    \A k \in DOMAIN tasks :
      /\ (tasks[k].cmd = "e" /\ tasks[k].text \in StructuredTexts) =>
           /\ tasks[k].ran
           /\ tasks[k].runArgs = ReplacementOf(tasks[k].text)
           /\ tasks[k].st = "done" =>
                tasks[k].result \in
                  { SuccessResult(SyncRun(tasks[k].tool, tasks[k].runArgs).value),
                    ErrorResult(SyncRun(tasks[k].tool, tasks[k].runArgs).error) }
      /\ tasks[k].cmd = "c" =>
           /\ tasks[k].ran
           /\ tasks[k].runArgs = toolCalls[k].arguments

\* C30 (as stated): from the start of the dispatch of a registered tool
\* until that dispatch ends, the xray context holds the Agent, the prompt
\* and the iteration of the invocation; no other call of the turn has
\* cleared it.
C30_SlotIsolation ==
  pc = "awaitTools" =>
    \A k \in DOMAIN tasks :
      (tasks[k].injected /\ tasks[k].st \in {"paused", "editing", "running"}) =>
        /\ xrayContext # ClearedXray
        /\ xrayContext.agent
        /\ xrayContext.userPrompt = OrEmpty(lastUserPrompt)
        /\ xrayContext.iteration = Num(currentIteration)

\* the schemas of the tools registered now, in the order of the tool list
CurrentSchemas(list) == [k \in DOMAIN list |-> list[k].name]

\* C31 (as stated): every step that calls the provider hands it the schemas
\* of exactly the tools registered at that moment.
C31_CurrentSchemas ==
  [][callCount' # callCount => toolSchemas' = CurrentSchemas(tools')]_vars

\* C32 (as stated): an input() invocation never makes more provider calls
\* than its cap (the override when given, else the configured cap), and an
\* invocation under way eventually finishes.
C32_Termination ==
  /\ [](pc # "idle" => providerCalls <= RequestedCap)
  /\ (pc \in {"awaitLLM", "awaitTools"}) ~> (pc = "done")

\* C33: a reset leaves the tool list and the name map as they were, and
\* the input() that follows a reset calls the provider with the system
\* message and its own user message only, with the schemas of the
\* registered tools and, when it is given no override, under the configured
\* cap.
C33_ResetFrame ==
  [][/\ (messages # <<>> /\ messages' = <<>>) =>
          (tools' = tools /\ toolMap' = toolMap)
     /\ (/\ lastUserPrompt # Null /\ messages = <<>>
         /\ pc \in {"idle", "done"} /\ pc' = "awaitLLM") =>
          /\ messages' = <<SystemMessage,
                           [role |-> "user", content |-> lastUserPrompt']>>
          /\ toolSchemas' = CurrentSchemas(ConfigTools)
          /\ maxIterationsArg' = NoOverride =>
               iterations' = ConfigMaxIterations]_vars

\* C33 witness: after an input() with a tool turn and a reset, the provider
\* is called for the next input() with two messages and the tools of the
\* construction
C33_Witness ==
  /\ pc = "awaitLLM"
  /\ i = 0
  /\ callCount = 2
  /\ trace # <<>>
  /\ messages = <<SystemMessage, UserMessage("Hello")>>
  /\ tools = ConfigTools
  /\ toolMap = MapOf(ConfigTools)

\* the position in the log of the tool_call event of call id, from the last
\* llm_response event on; 0 when there is none
CompletionIndex(id) ==
  LET turn == {k \in DOMAIN behaviors : behaviors[k].type = "llm_response"}
      from == IF turn = {} THEN 0
              ELSE CHOOSE k \in turn : \A m \in turn : m <= k
      found == {k \in DOMAIN behaviors :
                  /\ k > from
                  /\ behaviors[k].type = "tool_call"
                  /\ behaviors[k].call_id = id}
  IN IF found = {} THEN 0 ELSE CHOOSE k \in found : TRUE

\* C34: the step that ends a turn appends tool messages only, the j-th of
\* them for the j-th call of the response, whatever the order in which the
\* calls completed.
C34_ToolMessageOrder ==
  [][(pc = "awaitTools" /\ pc' # "awaitTools") =>
       \E n \in 0..Len(toolCalls) :
         /\ Len(messages') = Len(messages) + n
         /\ SubSeq(messages', 1, Len(messages)) = messages
         /\ \A j \in 1..n :
              /\ messages'[Len(messages) + j].role = "tool"
              /\ messages'[Len(messages) + j].tool_call_id = toolCalls[j].id]_vars

\* C34 witness: the second call of a turn completed before the first, and
\* the conversation holds the message of the first before that of the second
C34_Witness ==
  /\ pc = "awaitLLM"
  /\ i = 1
  /\ Len(toolCalls) = 2
  /\ CompletionIndex("call_2") > 0
  /\ CompletionIndex("call_2") < CompletionIndex("call_1")
  /\ messages[Len(messages) - 1].role = "tool"
  /\ messages[Len(messages) - 1].tool_call_id = "call_1"
  /\ messages[Len(messages)].tool_call_id = "call_2"

\* C35 (as stated): the names of the tool list are the names the name map
\* holds.
C35_RegistryConsistency ==
  {tools[k].name : k \in DOMAIN tools} = DOMAIN toolMap

\* C36 (as stated): debugging is off whenever no invocation is under way,
\* and an input() that was not started by autoDebug runs with debugging off
\* and never waits at a breakpoint.
C36_DebugScope ==
  /\ pc \in {"idle", "done"} => ~debugEnabled
  /\ (pc \in {"awaitLLM", "awaitTools"} /\ ~viaAutoDebug) =>
       /\ ~debugEnabled
       /\ \A k \in DOMAIN tasks : ~tasks[k].asked

\* C37: the step in which a provider call raises leaves the conversation
\* as it is, the user message of the failed call included, and the next
\* input() hands the provider that conversation followed by its own user
\* message.
C37_NoRollback ==
  [][/\ (pc = "awaitLLM" /\ pc' = "done" /\ outcome'.kind = "raised") =>
          /\ messages' = messages
          /\ \E m \in DOMAIN messages' :
               messages'[m] = [role |-> "user", content |-> lastUserPrompt]
     /\ (/\ pc = "done" /\ providerError # "" /\ messages # <<>>
         /\ pc' = "awaitLLM") =>
          messages' = Append(messages,
                             [role |-> "user", content |-> lastUserPrompt'])]_vars

\* C37 witness: the provider is called for the input() that follows a
\* failed one, with the user message of the failed call before its own
C37_Witness ==
  /\ pc = "awaitLLM"
  /\ i = 0
  /\ callCount = 2
  /\ messages = <<SystemMessage, UserMessage("Hello"), UserMessage("Hello")>>
  /\ Len(behaviors) = 2
  /\ behaviors[1].type = "input" /\ behaviors[2].type = "input"

\* C38: once the promise of an input() call has settled, no event of that
\* call changes its outcome; and from the step that settles it on, the
\* socket is closing or closed and the timeout timer is not running.
C38_SettleOnce ==
  [][/\ (promise # NoOutcome /\ uuids' = uuids) =>
          (promise' = promise /\ settled')
     /\ (promise' # NoOutcome) =>
          /\ settled'
          /\ ws' \in {"closing", "closed"}
          /\ ~timer'.armed
     /\ (promise = NoOutcome /\ ws # "none") => ~settled]_vars

\* C38 witness: the call resolved with the first frame; the ERROR delivered
\* after it and the close of the socket left the outcome as it was
C38_Witness ==
  /\ promise = Returned(Str("Echo: ping"))
  /\ ws = "closed"
  /\ ~timer.armed /\ ~timer.fired
  /\ Len(delivered) = 2
  /\ delivered[1] = OutputFrame(inputId, Str("Echo: ping"))
  /\ delivered[2] = ErrorFrame(inputId, Str("not found"))

====
